---- MODULE Spec2Model ----
(***************************************************************************)
(* Simulation_Study.py: an M/M/1 queue simulated with SimPy.  A generator  *)
(* process creates packets, toQueue admits or drops them, a server process *)
(* takes them from a simpy.Store and serves them, a monitor process        *)
(* samples the buffer.  The SimPy environment is modelled by its event     *)
(* heap: events are ordered by (time, priority, eid); env.run pops the     *)
(* least event, sets env.now and runs its callbacks.                       *)
(*                                                                         *)
(* Time is counted in ticks of 8/SERVER_RATE time units (the service time  *)
(* of one byte), so that every service time is a whole number of ticks.    *)
(***************************************************************************)
EXTENDS Integers, Sequences, FiniteSets

\* ---------------------------------------------------------------- bounds
MaxPackets == 3
MaxTime == 2
MaxSubmits == 3

\* ------------------------------------------------- experimental data
SERVER_RATE == 1000
SAMPLING_INTERVALL == 1
NUMBER_PACKETS == MaxPackets
SIMULATION_TIME == MaxTime

\* values random.expovariate can return, in ticks (line 60) and in bytes
\* after int() (line 62); the values QUEUE_LIMIT is given
DelayDraws == {0, 50, 125}
SizeDraws == {0, 50, 125}
LimitDraws == {0, 1, 150}
\* sizes handed to toQueue when it is exercised on its own
AdmitSizes == {9, 10, 50, 60, 80}

TicksPerUnit == SERVER_RATE \div 8

\* simpy.core: priorities of scheduled events
URGENT == 0
NORMAL == 1

VARIABLES
    LIMIT_BYTES,      \* line 26, fixed for a run
    QUEUE_LIMIT,      \* line 25, fixed for a run
    now,              \* env.now
    heap,             \* env._queue: the scheduled events
    eid,              \* env._eid: the next event id
    halted,           \* env.run has returned
    items,            \* queue.items
    get_waiting,      \* queue.get_queue holds the server's untriggered get
    srv_packet,       \* the server's local variable packet
    gen_i,            \* iterations of the generator's for loop started
    byte_size,
    packets_sent,
    packets_rec,
    packets_drop,
    packets_queue,
    packets_recorded,
    bytes_recorded,
    queue_times,
    packet_times,
    queue_avg_times,
    queue_sizes,
    byte_sizes,
    samp_time,
    queue_avg_sizes,
    admit_log,        \* history: packets handed to queue.put, in order
    idle_admits,      \* history: ids of packets put while the server waited on an empty store
    service_log,      \* history: (packet, time) at each return of queue.get in the server
    done_log,         \* history: ids of the packets handed to recorder, in order
    input_log,        \* history: sizes handed to toQueue, in order
    draw_log,         \* history: the values drawn from random, in order
    first_run         \* the outcome of an earlier run with the same seed, if any

config == <<LIMIT_BYTES, QUEUE_LIMIT, first_run>>
sched == <<now, heap, eid, halted>>
store == <<items, get_waiting>>
counters == <<packets_sent, packets_rec, packets_drop, packets_queue,
              packets_recorded, bytes_recorded>>
packet_series == <<queue_times, packet_times, queue_avg_times>>
sample_series == <<queue_sizes, byte_sizes, samp_time, queue_avg_sizes>>
history == <<admit_log, idle_admits, service_log, done_log, input_log, draw_log>>
vars == <<config, sched, store, srv_packet, gen_i, byte_size, counters,
          packet_series, sample_series, history>>

\* ------------------------------------------------------------ helpers
\* class Packet
Packet(id, size, time) == [id |-> id, size |-> size, time |-> time]
NoPacket == Packet(0, 0, 0)

RECURSIVE SumSizes(_)
SumSizes(s) == IF s = <<>> THEN 0 ELSE Head(s).size + SumSizes(Tail(s))

RECURSIVE Sum(_)
Sum(s) == IF s = <<>> THEN 0 ELSE Head(s) + Sum(Tail(s))

\* sum(xs)/len(xs), kept as a fraction
Average(s) == [num |-> Sum(s), den |-> Len(s)]

\* a heap that hands out the newest of the events of one time first
Before_lifo(e, f) ==
    \/ e.time < f.time
    \/ e.time = f.time /\ e.prio < f.prio
    \/ e.time = f.time /\ e.prio = f.prio /\ e.eid >= f.eid

\* a heap that does not order the events of one time and priority
Before_unordered(e, f) ==
    \/ e.time < f.time
    \/ e.time = f.time /\ e.prio <= f.prio

\* simpy heap order: (time, priority, eid)
Before(e, f) ==
    \/ e.time < f.time
    \/ e.time = f.time /\ e.prio < f.prio
    \/ e.time = f.time /\ e.prio = f.prio /\ e.eid <= f.eid

NextEvent == CHOOSE e \in heap : \A f \in heap : Before(e, f)

\* Environment.schedule(event, priority, delay) at env.now = t, with event id n
Event(t, n, prio, delay, kind, value) ==
    [time |-> t + delay, prio |-> prio, eid |-> n, kind |-> kind, value |-> value]

\* the until event ordered after the events of its time
AfterNormal == NORMAL + 1

\* priority of the event env.run(until=number) schedules
UntilPriority == URGENT

\* the service time cut short by an integer division
ServiceTime_half(size) == ((size \div 2) * 8 * TicksPerUnit) \div SERVER_RATE

\* the service time computed from bytes instead of bits
ServiceTime_bytes(size) == (size * TicksPerUnit) \div SERVER_RATE

\* env.timeout(packet.size*8.0/SERVER_RATE), in ticks
ServiceTime(size) == (size * 8 * TicksPerUnit) \div SERVER_RATE

\* env.timeout(1/SAMPLING_INTERVALL), in ticks
SamplePeriod == TicksPerUnit \div SAMPLING_INTERVALL

Horizon == SIMULATION_TIME * TicksPerUnit

\* toQueue with the count test made on the candidate length
toQueue_candidate(packet, bytes, its, rec, drp, que, byMode, limit) ==
    LET queue_byte_count == bytes + packet.size
    IN  IF byMode /\ (queue_byte_count >= limit)
        THEN [packets_rec |-> rec + 1, packets_drop |-> drp + 1, packets_queue |-> que,
              byte_size |-> bytes, items |-> its, put |-> FALSE]
        ELSE IF (~byMode) /\ (Len(its) + 1 >= limit)
        THEN [packets_rec |-> rec + 1, packets_drop |-> drp + 1, packets_queue |-> que,
              byte_size |-> bytes, items |-> its, put |-> FALSE]
        ELSE [packets_rec |-> rec + 1, packets_drop |-> drp, packets_queue |-> que + 1,
              byte_size |-> queue_byte_count, items |-> Append(its, packet), put |-> TRUE]

\* toQueue with the byte test made with > instead of >=
toQueue_exceeds(packet, bytes, its, rec, drp, que, byMode, limit) ==
    LET queue_byte_count == bytes + packet.size
    IN  IF byMode /\ (queue_byte_count > limit)
        THEN [packets_rec |-> rec + 1, packets_drop |-> drp + 1, packets_queue |-> que,
              byte_size |-> bytes, items |-> its, put |-> FALSE]
        ELSE IF (~byMode) /\ (Len(its) >= limit)
        THEN [packets_rec |-> rec + 1, packets_drop |-> drp + 1, packets_queue |-> que,
              byte_size |-> bytes, items |-> its, put |-> FALSE]
        ELSE [packets_rec |-> rec + 1, packets_drop |-> drp, packets_queue |-> que + 1,
              byte_size |-> queue_byte_count, items |-> Append(its, packet), put |-> TRUE]

\* toQueue with the drop of the count branch left uncounted
toQueue_uncounted(packet, bytes, its, rec, drp, que, byMode, limit) ==
    LET queue_byte_count == bytes + packet.size
    IN  IF byMode /\ (queue_byte_count >= limit)
        THEN [packets_rec |-> rec + 1, packets_drop |-> drp + 1, packets_queue |-> que,
              byte_size |-> bytes, items |-> its, put |-> FALSE]
        ELSE IF (~byMode) /\ (Len(its) >= limit)
        THEN [packets_rec |-> rec + 1, packets_drop |-> drp, packets_queue |-> que,
              byte_size |-> bytes, items |-> its, put |-> FALSE]
        ELSE [packets_rec |-> rec + 1, packets_drop |-> drp, packets_queue |-> que + 1,
              byte_size |-> queue_byte_count, items |-> Append(its, packet), put |-> TRUE]

\* toQueue with byte_size assigned before the byte test
toQueue_eager(packet, bytes, its, rec, drp, que, byMode, limit) ==
    LET queue_byte_count == bytes + packet.size
    IN  IF byMode /\ (queue_byte_count >= limit)
        THEN [packets_rec |-> rec + 1, packets_drop |-> drp + 1, packets_queue |-> que,
              byte_size |-> queue_byte_count, items |-> its, put |-> FALSE]
        ELSE IF (~byMode) /\ (Len(its) >= limit)
        THEN [packets_rec |-> rec + 1, packets_drop |-> drp + 1, packets_queue |-> que,
              byte_size |-> bytes, items |-> its, put |-> FALSE]
        ELSE [packets_rec |-> rec + 1, packets_drop |-> drp, packets_queue |-> que + 1,
              byte_size |-> queue_byte_count, items |-> Append(its, packet), put |-> TRUE]

\* toQueue(packet): the new values of the globals it writes, and whether
\* queue.put was called
toQueue(packet, bytes, its, rec, drp, que, byMode, limit) ==
    LET queue_byte_count == bytes + packet.size
    IN  IF byMode /\ (queue_byte_count >= limit)
        THEN [packets_rec |-> rec + 1, packets_drop |-> drp + 1, packets_queue |-> que,
              byte_size |-> bytes, items |-> its, put |-> FALSE]
        ELSE IF (~byMode) /\ (Len(its) >= limit)
        THEN [packets_rec |-> rec + 1, packets_drop |-> drp + 1, packets_queue |-> que,
              byte_size |-> bytes, items |-> its, put |-> FALSE]
        ELSE [packets_rec |-> rec + 1, packets_drop |-> drp, packets_queue |-> que + 1,
              byte_size |-> queue_byte_count, items |-> Append(its, packet), put |-> TRUE]

\* the server without its decrement
Decrement_none(bytes, packet) == bytes

\* line 70: byte_size -= packet.size
Decrement(bytes, packet) == bytes - packet.size

\* a store that hands out its newest item
GetIndex_last(its) == Len(its)

\* Store._do_get: the index of the item a get is given
GetIndex(its) == 1

RemoveAt(s, i) == SubSeq(s, 1, i - 1) \o SubSeq(s, i + 1, Len(s))

\* ------------------------------------------------------------ initial state
\* lines 30-44 and 112-118: the three Initialize events and the until event
\* lines 115-118: the Initialize events of the three processes and the
\* event of env.run(until=SIMULATION_TIME)
InitHeap ==
    {[time |-> 0, prio |-> URGENT, eid |-> 0, kind |-> "init_generator", value |-> NoPacket],
     [time |-> 0, prio |-> URGENT, eid |-> 1, kind |-> "init_server", value |-> NoPacket],
     [time |-> 0, prio |-> URGENT, eid |-> 2, kind |-> "init_monitor", value |-> NoPacket],
     [time |-> Horizon, prio |-> UntilPriority, eid |-> 3, kind |-> "until", value |-> NoPacket]}

InitRun ==
    /\ now = 0
    /\ heap = InitHeap
    /\ eid = 4
    /\ halted = FALSE
    /\ items = <<>>
    /\ get_waiting = FALSE
    /\ srv_packet = NoPacket
    /\ gen_i = 0
    /\ byte_size = 0
    /\ packets_sent = 0
    /\ packets_rec = 0
    /\ packets_drop = 0
    /\ packets_queue = 0
    /\ packets_recorded = 0
    /\ bytes_recorded = 0
    /\ queue_times = <<>>
    /\ packet_times = <<>>
    /\ queue_avg_times = <<>>
    /\ queue_sizes = <<>>
    /\ byte_sizes = <<>>
    /\ samp_time = <<>>
    /\ queue_avg_sizes = <<>>
    /\ admit_log = <<>>
    /\ idle_admits = {}
    /\ service_log = <<>>
    /\ done_log = <<>>
    /\ input_log = <<>>
    /\ draw_log = <<>>

Init ==
    /\ LIMIT_BYTES \in BOOLEAN
    /\ QUEUE_LIMIT \in LimitDraws
    /\ first_run = <<>>
    /\ InitRun

\* ------------------------------------------------------------ scheduler
\* Environment.step: pop the least event of the given kind and advance the clock
Pop(kind) ==
    /\ ~halted
    /\ heap # {}
    /\ NextEvent.kind = kind

Rest == heap \ {NextEvent}
Due == NextEvent.time

\* a loop that runs once more than range(NUMBER_PACKETS)
LoopContinues_inclusive(i) == i <= NUMBER_PACKETS

\* line 59, for i in range(NUMBER_PACKETS): is there an iteration after i of them?
LoopContinues(i) == i < NUMBER_PACKETS

\* line 115, Initialize: the generator runs to its first yield
StartGenerator ==
    /\ Pop("init_generator")
    /\ now' = Due
    /\ IF LoopContinues(0)
       THEN \E d \in DelayDraws :
               /\ heap' = Rest \cup {Event(Due, eid, NORMAL, d, "gen_timeout", NoPacket)}
               /\ draw_log' = Append(draw_log, d)
       ELSE /\ heap' = Rest \cup {Event(Due, eid, NORMAL, 0, "gen_exit", NoPacket)}
            /\ UNCHANGED draw_log
    /\ gen_i' = IF LoopContinues(0) THEN 1 ELSE 0
    /\ eid' = eid + 1
    /\ UNCHANGED <<config, halted, store, srv_packet, byte_size, counters,
                   packet_series, sample_series, admit_log, idle_admits, service_log,
                   done_log, input_log>>

\* line 63, toQueue(packet): the globals it writes
ToQueue(packet) ==
    LET r == toQueue(packet, byte_size, items, packets_rec, packets_drop, packets_queue,
                     LIMIT_BYTES, QUEUE_LIMIT)
    IN  /\ packets_rec' = r.packets_rec
        /\ packets_drop' = r.packets_drop
        /\ packets_queue' = r.packets_queue
        /\ byte_size' = r.byte_size
        /\ items' = r.items
        /\ input_log' = Append(input_log, packet.size)
        /\ admit_log' = IF r.put THEN Append(admit_log, packet) ELSE admit_log
        /\ idle_admits' = IF r.put /\ get_waiting /\ items = <<>>
                          THEN idle_admits \cup {packet.id}
                          ELSE idle_admits

\* line 89, queue.put(packet) at env.now = t with event id n: the StorePut
\* event it schedules
Puts(packet, t, n) ==
    IF toQueue(packet, byte_size, items, packets_rec, packets_drop, packets_queue,
               LIMIT_BYTES, QUEUE_LIMIT).put
    THEN {Event(t, n, NORMAL, 0, "put", NoPacket)}
    ELSE {}

\* lines 61-63 and 76-89, then the next iteration's line 60 or the end of
\* the loop (the process event of the finished generator is scheduled)
GeneratorStep ==
    /\ Pop("gen_timeout")
    /\ now' = Due
    /\ packets_sent' = packets_sent + 1
    /\ \E size \in SizeDraws :
         LET packet == Packet(packets_sent + 1, size, Due)
             puts == Puts(packet, Due, eid)
             n == eid + Cardinality(puts)
         IN  /\ ToQueue(packet)
             /\ IF LoopContinues(gen_i)
                THEN /\ \E d \in DelayDraws :
                          /\ heap' = Rest \cup puts \cup {Event(Due, n, NORMAL, d, "gen_timeout", NoPacket)}
                          /\ draw_log' = draw_log \o <<size, d>>
                     /\ gen_i' = gen_i + 1
                ELSE /\ heap' = Rest \cup puts \cup {Event(Due, n, NORMAL, 0, "gen_exit", NoPacket)}
                     /\ draw_log' = Append(draw_log, size)
                     /\ UNCHANGED gen_i
             /\ eid' = n + 1
    /\ UNCHANGED <<config, halted, get_waiting, srv_packet, packets_recorded,
                   bytes_recorded, packet_series, sample_series, service_log, done_log>>

\* the process event of the finished generator: no callbacks
GeneratorExit ==
    /\ Pop("gen_exit")
    /\ now' = Due
    /\ heap' = Rest
    /\ UNCHANGED <<config, eid, halted, store, srv_packet, gen_i, byte_size, counters,
                   packet_series, sample_series, history>>

\* a StorePut event that wakes nobody
PutEvent_lost ==
    /\ Pop("put")
    /\ now' = Due
    /\ heap' = Rest
    /\ UNCHANGED <<config, eid, halted, store, srv_packet, gen_i, byte_size, counters,
                   packet_series, sample_series, history>>

\* line 89: the StorePut event is dispatched; its callback _trigger_get
\* serves the waiting get: Store._do_get pops an item and triggers the get
PutEvent ==
    /\ Pop("put")
    /\ now' = Due
    /\ IF get_waiting /\ items # <<>>
       THEN /\ heap' = Rest \cup {Event(Due, eid, NORMAL, 0, "get", items[GetIndex(items)])}
            /\ items' = RemoveAt(items, GetIndex(items))
            /\ get_waiting' = FALSE
            /\ eid' = eid + 1
       ELSE /\ heap' = Rest
            /\ UNCHANGED <<items, get_waiting, eid>>
    /\ UNCHANGED <<config, halted, srv_packet, gen_i, byte_size, counters,
                   packet_series, sample_series, history>>

\* lines 69-71: the StoreGet event is dispatched and the server resumes
GetEvent ==
    /\ Pop("get")
    /\ now' = Due
    /\ LET packet == NextEvent.value
       IN  /\ srv_packet' = packet
           /\ byte_size' = Decrement(byte_size, packet)
           /\ heap' = Rest \cup {Event(Due, eid, NORMAL, ServiceTime(packet.size), "srv_timeout", NoPacket)}
           /\ service_log' = Append(service_log, [packet |-> packet, start |-> Due])
    /\ eid' = eid + 1
    /\ UNCHANGED <<config, halted, store, gen_i, counters, packet_series, sample_series,
                   admit_log, idle_admits, done_log, input_log, draw_log>>

\* line 69, queue.get(): StoreGet.__init__ calls _trigger_get at once
QueueGet ==
    IF items # <<>>
    THEN /\ heap' = Rest \cup {Event(Due, eid, NORMAL, 0, "get", items[GetIndex(items)])}
         /\ items' = RemoveAt(items, GetIndex(items))
         /\ get_waiting' = FALSE
         /\ eid' = eid + 1
    ELSE /\ heap' = Rest
         /\ get_waiting' = TRUE
         /\ UNCHANGED <<items, eid>>

\* line 116, Initialize: the server runs to its first yield
StartServer ==
    /\ Pop("init_server")
    /\ now' = Due
    /\ QueueGet
    /\ UNCHANGED <<config, halted, srv_packet, gen_i, byte_size, counters,
                   packet_series, sample_series, history>>

\* recorder without its count of processed packets
recorder_uncounted(t, packet, qt, pt, qat, nrec, brec) ==
    LET arrive_time == t
        times == Append(qt, arrive_time - packet.time)
    IN  [queue_times |-> times,
         packet_times |-> Append(pt, arrive_time),
         queue_avg_times |-> Append(qat, Average(times)),
         packets_recorded |-> nrec,
         bytes_recorded |-> brec + packet.size]

\* recorder with the average taken before the new delay is appended
recorder_stale(t, packet, qt, pt, qat, nrec, brec) ==
    LET arrive_time == t
        times == Append(qt, arrive_time - packet.time)
    IN  [queue_times |-> times,
         packet_times |-> Append(pt, arrive_time),
         queue_avg_times |-> Append(qat, Average(qt)),
         packets_recorded |-> nrec + 1,
         bytes_recorded |-> brec + packet.size]

\* recorder(env, packet) at env.now = t: the new values of the globals it writes
recorder(t, packet, qt, pt, qat, nrec, brec) ==
    LET arrive_time == t
        times == Append(qt, arrive_time - packet.time)
    IN  [queue_times |-> times,
         packet_times |-> Append(pt, arrive_time),
         queue_avg_times |-> Append(qat, Average(times)),
         packets_recorded |-> nrec + 1,
         bytes_recorded |-> brec + packet.size]

\* lines 72-73 and 92-99, then line 69 of the next iteration
ServerTimeout ==
    /\ Pop("srv_timeout")
    /\ now' = Due
    /\ LET r == recorder(Due, srv_packet, queue_times, packet_times, queue_avg_times,
                         packets_recorded, bytes_recorded)
       IN  /\ queue_times' = r.queue_times
           /\ packet_times' = r.packet_times
           /\ queue_avg_times' = r.queue_avg_times
           /\ packets_recorded' = r.packets_recorded
           /\ bytes_recorded' = r.bytes_recorded
    /\ done_log' = Append(done_log, srv_packet.id)
    /\ srv_packet' = NoPacket
    /\ QueueGet
    /\ UNCHANGED <<config, halted, gen_i, byte_size, packets_sent, packets_rec,
                   packets_drop, packets_queue, sample_series, admit_log, idle_admits,
                   service_log, input_log, draw_log>>

\* a monitor that samples before its first wait
StartMonitor_samples ==
    /\ Pop("init_monitor")
    /\ now' = Due
    /\ byte_sizes' = Append(byte_sizes, byte_size)
    /\ queue_sizes' = Append(queue_sizes, Len(items))
    /\ queue_avg_sizes' = Append(queue_avg_sizes, Average(Append(queue_sizes, Len(items))))
    /\ samp_time' = Append(samp_time, Due)
    /\ heap' = Rest \cup {Event(Due, eid, NORMAL, SamplePeriod, "mon_timeout", NoPacket)}
    /\ eid' = eid + 1
    /\ UNCHANGED <<config, halted, store, srv_packet, gen_i, byte_size, counters,
                   packet_series, history>>

\* line 117, Initialize: the monitor runs to its first yield
StartMonitor ==
    /\ Pop("init_monitor")
    /\ now' = Due
    /\ heap' = Rest \cup {Event(Due, eid, NORMAL, SamplePeriod, "mon_timeout", NoPacket)}
    /\ eid' = eid + 1
    /\ UNCHANGED <<config, halted, store, srv_packet, gen_i, byte_size, counters,
                   packet_series, sample_series, history>>

\* a monitor that leaves the running average out
MonitorStep_noavg ==
    /\ Pop("mon_timeout")
    /\ now' = Due
    /\ byte_sizes' = Append(byte_sizes, byte_size)
    /\ queue_sizes' = Append(queue_sizes, Len(items))
    /\ samp_time' = Append(samp_time, Due)
    /\ heap' = Rest \cup {Event(Due, eid, NORMAL, SamplePeriod, "mon_timeout", NoPacket)}
    /\ eid' = eid + 1
    /\ UNCHANGED <<config, halted, store, srv_packet, gen_i, byte_size, counters,
                   packet_series, queue_avg_sizes, history>>

\* lines 106-109, then line 105 of the next iteration
MonitorStep ==
    /\ Pop("mon_timeout")
    /\ now' = Due
    /\ byte_sizes' = Append(byte_sizes, byte_size)
    /\ queue_sizes' = Append(queue_sizes, Len(items))
    /\ queue_avg_sizes' = Append(queue_avg_sizes, Average(Append(queue_sizes, Len(items))))
    /\ samp_time' = Append(samp_time, Due)
    /\ heap' = Rest \cup {Event(Due, eid, NORMAL, SamplePeriod, "mon_timeout", NoPacket)}
    /\ eid' = eid + 1
    /\ UNCHANGED <<config, halted, store, srv_packet, gen_i, byte_size, counters,
                   packet_series, history>>

\* line 118: the until event is dispatched, StopSimulation ends env.run;
\* the events still scheduled are never dispatched
Until ==
    /\ Pop("until")
    /\ now' = Due
    /\ heap' = Rest
    /\ halted' = TRUE
    /\ UNCHANGED <<config, eid, store, srv_packet, gen_i, byte_size, counters,
                   packet_series, sample_series, history>>

Next ==
    \/ StartGenerator
    \/ StartServer
    \/ StartMonitor
    \/ GeneratorStep
    \/ GeneratorExit
    \/ PutEvent
    \/ GetEvent
    \/ ServerTimeout
    \/ MonitorStep
    \/ Until

Spec == Init /\ [][Next]_vars

\* env.run keeps calling Environment.step until the until event is dispatched
FairSpec == Spec /\ WF_vars(Next)

\* ------------------------------------------------------------ toQueue alone
\* toQueue applied to a fresh buffer, packet after packet, while nothing is
\* taken from the store (no scheduler step in between)
InitAdmit == Init

Submit ==
    /\ packets_rec < MaxSubmits
    /\ now = 0
    /\ packets_sent' = packets_sent + 1
    /\ \E size \in AdmitSizes :
         LET packet == Packet(packets_sent + 1, size, now)
             puts == Puts(packet, now, eid)
         IN  /\ ToQueue(packet)
             /\ draw_log' = Append(draw_log, size)
             /\ heap' = heap \cup puts
             /\ eid' = eid + Cardinality(puts)
    /\ UNCHANGED <<config, now, halted, get_waiting, srv_packet, gen_i, packets_recorded,
                   bytes_recorded, packet_series, sample_series, service_log, done_log>>

NextAdmit == Submit

SpecAdmit == InitAdmit /\ [][NextAdmit]_vars

\* ------------------------------------------------------------ shared notions
\* the event env.run dispatches next resumes the generator, the monitor
\* or the server after its service timeout
ResumesObserver ==
    /\ ~halted
    /\ heap # {}
    /\ NextEvent.kind \in {"gen_timeout", "mon_timeout", "srv_timeout"}

\* a packet popped from the store whose get event is not yet dispatched
InFlight == {e \in heap : e.kind = "get"}

\* one call of toQueue has happened in this step
Submitted == packets_rec' = packets_rec + 1

DroppedStep ==
    /\ packets_drop' = packets_drop + 1
    /\ packets_queue' = packets_queue
    /\ items' = items

AdmittedStep ==
    /\ packets_drop' = packets_drop
    /\ packets_queue' = packets_queue + 1
    /\ Len(items') = Len(items) + 1

Last(s) == s[Len(s)]

IsPrefix(s, t) == Len(s) <= Len(t) /\ \A i \in 1..Len(s) : s[i] = t[i]

Ids(s) == [i \in 1..Len(s) |-> s[i].id]
ServedIds == [i \in 1..Len(service_log) |-> service_log[i].packet.id]

\* size*8/serverBitRate, in ticks
Duration(size) == (size * 8 * TicksPerUnit) \div SERVER_RATE

\* the sampling period P, in ticks
Period == TicksPerUnit \div SAMPLING_INTERVALL

\* C1: whenever a process is about to be resumed, byte_size is the sum of
\* the sizes of the packets in queue.items
CE_C1 == ResumesObserver => byte_size = SumSizes(items)

\* C2 as stated: in count mode a packet submitted to a queue of n packets is
\* dropped iff n + 1 >= QUEUE_LIMIT, so the queue never holds more than
\* QUEUE_LIMIT - 1 packets
CE_C2 ==
    /\ [][(~LIMIT_BYTES /\ Submitted) =>
             IF Len(items) + 1 >= QUEUE_LIMIT THEN DroppedStep ELSE AdmittedStep]_vars
    /\ [](~LIMIT_BYTES => Len(items) <= QUEUE_LIMIT - 1)

\* C2 amended: in count mode a packet submitted to a queue of n packets is
\* dropped iff n >= QUEUE_LIMIT and admitted otherwise, so the queue never
\* holds more than QUEUE_LIMIT packets
Thm_C2 ==
    /\ [][(~LIMIT_BYTES /\ Submitted) =>
             IF Len(items) >= QUEUE_LIMIT THEN DroppedStep ELSE AdmittedStep]_vars
    /\ [](~LIMIT_BYTES => Len(items) <= QUEUE_LIMIT)

\* a packet was dropped in count mode from a queue holding QUEUE_LIMIT packets
W_C2 == ~LIMIT_BYTES /\ packets_drop > 0 /\ Len(items) = QUEUE_LIMIT /\ QUEUE_LIMIT > 0

Scenario150 ==
    /\ LIMIT_BYTES
    /\ QUEUE_LIMIT = 150
    /\ Len(input_log) >= 3
    /\ SubSeq(input_log, 1, 3) = <<80, 60, 50>>

\* C3: in byte mode a packet of size s submitted at byte_size = B is dropped
\* iff B + s >= QUEUE_LIMIT; byte_size becomes B + s on admission and stays
\* B on a drop; sizes 80, 60, 50 into an empty queue of limit 150 give
\* admitted, admitted, dropped, byte_size 140, one drop, two admissions
Thm_C3 ==
    /\ [][(LIMIT_BYTES /\ Submitted) =>
             LET s == Last(input_log')
             IN  IF byte_size + s >= QUEUE_LIMIT
                 THEN DroppedStep /\ byte_size' = byte_size
                 ELSE AdmittedStep /\ byte_size' = byte_size + s]_vars
    /\ []((Scenario150 /\ Len(input_log) = 3) =>
             /\ byte_size = 140
             /\ packets_drop = 1
             /\ packets_queue = 2
             /\ Ids(items) = <<1, 2>>)

\* the scenario has run, and then a packet of size L - B - 1 was admitted
W_C3 ==
    /\ Scenario150
    /\ packets_drop = 1
    /\ byte_size = 140 \/ (input_log = <<80, 60, 50, 9>> /\ byte_size = 149)

\* C4 as stated: byte_size is never negative and is zero iff queue.items is empty
CE_C4 == byte_size >= 0 /\ (byte_size = 0 <=> items = <<>>)

\* C4 amended: byte_size is never negative, and it is zero iff every packet
\* in queue.items, and the packet already popped for the server whose size
\* the server has not subtracted yet, has size 0
Thm_C4 ==
    /\ byte_size >= 0
    /\ byte_size = 0 <=> /\ \A i \in 1..Len(items) : items[i].size = 0
                         /\ \A e \in InFlight : e.value.size = 0

\* a packet of size 0 is resident while byte_size is 0
W_C4 == items # <<>> /\ byte_size = 0 /\ packets_recorded > 0

\* C5: received = admitted + dropped; every submission adds one to received
\* and one to exactly one of admitted and dropped
Thm_C5 ==
    /\ [](packets_rec = packets_queue + packets_drop)
    /\ [][packets_sent' # packets_sent =>
             /\ packets_sent' = packets_sent + 1
             /\ Submitted
             /\ \/ packets_queue' = packets_queue + 1 /\ packets_drop' = packets_drop
                \/ packets_queue' = packets_queue /\ packets_drop' = packets_drop + 1]_vars
    /\ [][packets_sent' = packets_sent =>
             UNCHANGED <<packets_rec, packets_queue, packets_drop>>]_vars

\* packets were admitted and packets were dropped, in count mode
W_C5 == ~LIMIT_BYTES /\ packets_queue > 0 /\ packets_drop > 0 /\ halted

\* C6 as stated: when env.run returns, every event due at or before the
\* horizon has been dispatched
CE_C6 == halted => \A e \in heap : e.time > Horizon

\* C6 amended: env.run dispatches every event due strictly before the
\* horizon and none due at the horizon or later: no process step happens at
\* the horizon, and what is left when it returns is due at the horizon or later
Thm_C6 ==
    /\ ~halted => now < Horizon
    /\ halted => now = Horizon /\ \A e \in heap : e.time >= Horizon
    /\ \A k \in 1..Len(samp_time) : samp_time[k] < Horizon
    /\ \A k \in 1..Len(packet_times) : packet_times[k] < Horizon
    /\ \A k \in 1..Len(admit_log) : admit_log[k].time < Horizon

\* env.run has returned and left an event due exactly at the horizon
W_C6 == halted /\ \E e \in heap : e.time = Horizon /\ e.kind = "mon_timeout"

\* C7: the server takes, and records, the packets in the order of their admission
Thm_C7 ==
    /\ IsPrefix(ServedIds, Ids(admit_log))
    /\ IsPrefix(done_log, ServedIds)
    /\ Len(service_log) <= Len(done_log) + 1

\* three packets were admitted, two of them waited together, all were recorded
W_C7 == Len(done_log) = 3 /\ \E k \in 1..Len(queue_sizes) : queue_sizes[k] = 2

\* C8: the service intervals [start, start + size*8/SERVER_RATE) of two
\* packets do not overlap, and a packet's completion is recorded before the
\* next packet is taken
Thm_C8 ==
    /\ \A i, j \in 1..Len(service_log) :
          i < j => service_log[i].start + Duration(service_log[i].packet.size)
                     <= service_log[j].start
    /\ Len(service_log) <= Len(done_log) + 1
    /\ \A k \in 1..Len(done_log) :
          packet_times[k] = service_log[k].start + Duration(service_log[k].packet.size)

\* a packet of positive size was served right after another one
W_C8 ==
    \E j \in 2..Len(service_log) :
        /\ service_log[j].start = service_log[j-1].start + Duration(service_log[j-1].packet.size)
        /\ service_log[j-1].packet.size > 0
        /\ service_log[j].packet.time < service_log[j].start

\* C9: a packet of size s admitted at time t while the store is empty and
\* the server waits on it is taken at t and recorded at t + s*8/SERVER_RATE
Thm_C9 ==
    /\ \A k \in 1..Len(admit_log) :
          (admit_log[k].id \in idle_admits /\ (now > admit_log[k].time \/ halted)) =>
              \E j \in 1..Len(service_log) : service_log[j].packet = admit_log[k]
    /\ \A j \in 1..Len(service_log) :
          service_log[j].packet.id \in idle_admits =>
              service_log[j].start = service_log[j].packet.time
    /\ \A k \in 1..Len(done_log) :
          done_log[k] \in idle_admits =>
              /\ queue_times[k] = Duration(service_log[k].packet.size)
              /\ packet_times[k] = service_log[k].packet.time + Duration(service_log[k].packet.size)

\* a packet of 125 bytes arrived at time 0 at the idle system and was
\* recorded at time 1
W_C9 ==
    /\ done_log # <<>>
    /\ done_log[1] \in idle_admits
    /\ service_log[1].packet.size = 125
    /\ service_log[1].packet.time = 0
    /\ packet_times[1] = TicksPerUnit

Taken == IF InFlight # {} \/ srv_packet # NoPacket THEN 1 ELSE 0

NonDecreasing(s) == \A i, j \in 1..Len(s) : i <= j => s[i] <= s[j]

Extends(s, t) == Len(t) = Len(s) + 1 /\ SubSeq(t, 1, Len(s)) = s

\* C13: completed <= admitted, and admitted = completed + packets in the
\* queue + 1 if a packet was taken from the queue and is not yet recorded
Thm_C13 ==
    /\ packets_recorded <= packets_queue
    /\ packets_queue = packets_recorded + Len(items) + Taken
    /\ (items = <<>> /\ Taken = 0) => packets_recorded = packets_queue

\* packets were recorded, one is taken and not yet recorded, others wait
W_C13 == packets_recorded > 0 /\ Taken = 1 /\ items # <<>>

\* C14: in byte mode a packet of size s is dropped only if the sizes of the
\* packets in queue.items plus s reach QUEUE_LIMIT
CE_C14 ==
    [][(LIMIT_BYTES /\ Submitted /\ packets_drop' = packets_drop + 1) =>
          SumSizes(items) + Last(input_log') >= QUEUE_LIMIT]_vars

\* C15: of the events of one time the one created first is dispatched
\* first, env.now never decreases, and the timestamps of packet_times and
\* of samp_time never decrease
Thm_C15 ==
    /\ [][\A e \in heap \ heap' : \A f \in heap \cap heap' :
             f.time > e.time \/ (f.time = e.time /\ f.eid > e.eid)]_vars
    /\ [][now' >= now]_vars
    /\ [](NonDecreasing(packet_times) /\ NonDecreasing(samp_time))

\* a step was made at the current time while another event of that time waits
W_C15 ==
    /\ packets_recorded > 0
    /\ \E e, f \in heap : e # f /\ e.time = now /\ f.time = now /\ e.prio = f.prio

\* C16: a dropped submission adds one to received and to dropped and leaves
\* the queue, byte_size, the other counters of the buffer and the server,
\* and every series as they are; no put or get is scheduled
Thm_C16 ==
    [][packets_drop' # packets_drop =>
          /\ packets_drop' = packets_drop + 1
          /\ packets_rec' = packets_rec + 1
          /\ UNCHANGED <<items, byte_size, packets_queue, packets_recorded, bytes_recorded,
                         packet_series, sample_series, get_waiting, srv_packet>>
          /\ \A e \in heap' \ heap : e.kind \in {"gen_timeout", "gen_exit"}]_vars

\* a packet was dropped in byte mode while the server waited on the empty store
W_C16 == LIMIT_BYTES /\ packets_drop > 0 /\ get_waiting /\ items = <<>> /\ byte_size = 0

\* C17: each completion appends one entry to queue_times, packet_times and
\* queue_avg_times and counts the packet and its bytes; the delay is the
\* completion time minus the arrival time, at least the service time
Thm_C17 ==
    /\ [](/\ Len(queue_times) = packets_recorded
          /\ Len(packet_times) = packets_recorded
          /\ Len(queue_avg_times) = packets_recorded
          /\ Len(done_log) = packets_recorded
          /\ bytes_recorded = SumSizes([k \in 1..packets_recorded |-> service_log[k].packet])
          /\ \A k \in 1..packets_recorded :
                /\ queue_times[k] = packet_times[k] - service_log[k].packet.time
                /\ queue_times[k] >= Duration(service_log[k].packet.size)
                /\ queue_avg_times[k] = [num |-> Sum(SubSeq(queue_times, 1, k)), den |-> k])
    /\ [][packets_recorded' # packets_recorded =>
             /\ packets_recorded' = packets_recorded + 1
             /\ bytes_recorded' = bytes_recorded + srv_packet.size
             /\ Extends(queue_times, queue_times')
             /\ Extends(packet_times, packet_times')
             /\ Extends(queue_avg_times, queue_avg_times')]_vars

\* two packets were recorded, the second after waiting in the queue
W_C17 ==
    /\ packets_recorded = 2
    /\ queue_times[2] > Duration(service_log[2].packet.size)
    /\ bytes_recorded > 0

\* C19: a monitor step appends one value to each of queue_sizes,
\* byte_sizes, samp_time and queue_avg_sizes and leaves the queue,
\* byte_size, the counters and the per-packet series as they are
Thm_C19 ==
    /\ [](/\ Len(queue_sizes) = Len(samp_time)
          /\ Len(byte_sizes) = Len(samp_time)
          /\ Len(queue_avg_sizes) = Len(samp_time))
    /\ [][sample_series' # sample_series =>
             /\ queue_sizes' = Append(queue_sizes, Len(items))
             /\ byte_sizes' = Append(byte_sizes, byte_size)
             /\ samp_time' = Append(samp_time, now')
             /\ Extends(queue_avg_sizes, queue_avg_sizes')
             /\ Last(queue_avg_sizes') = [num |-> Sum(queue_sizes'), den |-> Len(queue_sizes')]
             /\ UNCHANGED <<items, get_waiting, byte_size, counters, packet_series>>]_vars

\* a sample was taken while a packet waited in the queue
W_C19 == \E k \in 1..Len(samp_time) : queue_sizes[k] > 0 /\ byte_sizes[k] > 0

Pending(kind) == {e \in heap : e.kind = kind}

\* C12: with a non-positive QUEUE_LIMIT the run aborts before the first
\* event is dispatched: the counters stay zero and the series empty
CE_C12 ==
    QUEUE_LIMIT <= 0 =>
        /\ Pending("init_generator") # {}
        /\ packets_sent = 0 /\ packets_rec = 0 /\ packets_drop = 0
        /\ packets_queue = 0 /\ packets_recorded = 0 /\ bytes_recorded = 0
        /\ samp_time = <<>> /\ packet_times = <<>>

\* C18: the generator creates at most NUMBER_PACKETS packets, numbers them
\* 1, 2, ... and stamps them with the time of their creation, hands each to
\* toQueue in the step that creates it, and is alive exactly until the cap
\* (or the end of the run) is reached
Thm_C18 ==
    /\ [](/\ packets_sent = packets_rec
          /\ packets_sent <= NUMBER_PACKETS
          /\ Len(input_log) = packets_sent
          /\ \A k \in 1..Len(admit_log) :
                /\ admit_log[k].id \in 1..packets_sent
                /\ admit_log[k].time <= now
                /\ \A j \in 1..Len(admit_log) : j < k => admit_log[j].id < admit_log[k].id
          /\ packets_sent = NUMBER_PACKETS => Pending("gen_timeout") = {}
          /\ (packets_sent < NUMBER_PACKETS /\ Pending("init_generator") = {})
                => Pending("gen_timeout") # {})
    /\ [][packets_sent' # packets_sent =>
             /\ packets_sent' = packets_sent + 1
             /\ Submitted
             /\ ~halted'
             /\ admit_log' # admit_log =>
                   Last(admit_log') = Packet(packets_sent', Last(input_log'), now')]_vars

\* the generator has reached its cap before the end of the run
W_C18 == packets_sent = NUMBER_PACKETS /\ Len(admit_log) = NUMBER_PACKETS /\ ~halted

\* the buffer is drained and the server waits on the empty store
Drained ==
    /\ packets_recorded = packets_queue
    /\ items = <<>>
    /\ byte_size = 0
    /\ get_waiting
    /\ srv_packet = NoPacket

GeneratorStopped == packets_sent = NUMBER_PACKETS

RECURSIVE SumDurations(_)
SumDurations(s) == IF s = <<>> THEN 0 ELSE Duration(Head(s).size) + SumDurations(Tail(s))

\* the time at which the server has served all it was given so far
FinishBy ==
    LET busy == Pending("srv_timeout")
        taken == InFlight
        base == IF busy # {} THEN (CHOOSE e \in busy : TRUE).time ELSE now
        first == IF taken # {} THEN Duration((CHOOSE e \in taken : TRUE).value.size) ELSE 0
    IN  base + first + SumDurations(items)

\* C20: once the generator has stopped and the work left ends before the
\* horizon, the run reaches a state with completed = admitted, an empty
\* queue, byte_size 0 and the server waiting; a packet put into the store
\* while the server waits always has its wake-up pending
Thm_C20 ==
    /\ []((get_waiting /\ items # <<>>) => Pending("put") # {})
    /\ []((Pending("init_server") = {} /\ ~get_waiting)
             => (InFlight # {} \/ Pending("srv_timeout") # {}))
    /\ (GeneratorStopped /\ FinishBy < Horizon) ~> (Drained /\ ~halted)

\* all packets of the run were admitted and served before the horizon
W_C20 ==
    /\ Drained
    /\ ~halted
    /\ packets_recorded = NUMBER_PACKETS
    /\ \E k \in 1..Len(queue_sizes) : queue_sizes[k] > 0

\* ------------------------------------------------------------ two runs
\* what is read after env.run has returned (lines 122-173), with the state
\* of the environment and the history
Outcome ==
    [counters |-> counters, packet_series |-> packet_series,
     sample_series |-> sample_series, history |-> history,
     byte_size |-> byte_size, items |-> items, heap |-> heap, now |-> now, eid |-> eid]

\* the script is started again with the same configuration and the same
\* RANDOM_SEED (line 112), after a first run has ended
Restart ==
    /\ halted
    /\ first_run = <<>>
    /\ first_run' = <<Outcome>>
    /\ UNCHANGED <<LIMIT_BYTES, QUEUE_LIMIT>>
    /\ now' = 0
    /\ heap' = InitHeap
    /\ eid' = 4
    /\ halted' = FALSE
    /\ items' = <<>>
    /\ get_waiting' = FALSE
    /\ srv_packet' = NoPacket
    /\ gen_i' = 0
    /\ byte_size' = 0
    /\ packets_sent' = 0
    /\ packets_rec' = 0
    /\ packets_drop' = 0
    /\ packets_queue' = 0
    /\ packets_recorded' = 0
    /\ bytes_recorded' = 0
    /\ queue_times' = <<>>
    /\ packet_times' = <<>>
    /\ queue_avg_times' = <<>>
    /\ queue_sizes' = <<>>
    /\ byte_sizes' = <<>>
    /\ samp_time' = <<>>
    /\ queue_avg_sizes' = <<>>
    /\ admit_log' = <<>>
    /\ idle_admits' = {}
    /\ service_log' = <<>>
    /\ done_log' = <<>>
    /\ input_log' = <<>>
    /\ draw_log' = <<>>

\* line 112, random.seed(RANDOM_SEED): the second run draws the values the
\* first run drew, in the same order
SameSeed == first_run # <<>> => IsPrefix(draw_log', first_run[1].history[6])

NextTwice ==
    \/ Next /\ SameSeed
    \/ Restart

InitTwice == Init /\ QUEUE_LIMIT = 150

SpecTwice == InitTwice /\ [][NextTwice]_vars

\* the events the heap would hand out next
LeastEvents == {e \in heap : \A f \in heap : Before(e, f)}

\* C11: a run's step is decided by the state and the values drawn: one
\* event is due next, and a second run with the same configuration and the
\* same draws ends with the same counters, series, queue and history
Thm_C11 ==
    /\ heap # {} => Cardinality(LeastEvents) = 1
    /\ \A e, f \in heap : e.eid = f.eid => e = f
    /\ (first_run # <<>> /\ halted) => Outcome = first_run[1]
    /\ first_run # <<>> =>
          /\ IsPrefix(draw_log, first_run[1].history[6])
          /\ IsPrefix(packet_times, first_run[1].packet_series[2])
          /\ IsPrefix(queue_times, first_run[1].packet_series[1])
          /\ IsPrefix(samp_time, first_run[1].sample_series[3])
          /\ IsPrefix(queue_sizes, first_run[1].sample_series[1])
          /\ IsPrefix(byte_sizes, first_run[1].sample_series[2])

\* a second run has ended after packets were admitted, dropped and served
W_C11 ==
    /\ first_run # <<>>
    /\ halted
    /\ packets_recorded > 0
    /\ packets_drop > 0
    /\ Len(samp_time) > 0

====
